---- MODULE Spec2Model ----
(***************************************************************************)
(* Model of the original logic of the bubble-hierarchy components:         *)
(*   - nestFlatToTree: flat {name, level, parent, value} records -> tree   *)
(*   - computeBubblePackingLayout: focus node + canvas side -> bubbles     *)
(*   - the focus / overlay state of the three bubble components            *)
(* The tree is an object graph in the source (a Map from name to node,     *)
(* nodes holding references to their children).  Here a node reference is  *)
(* the node's key in byName, so the graph is a heap indexed by name.       *)
(***************************************************************************)
EXTENDS Integers, Sequences, FiniteSets, TLC

VARIABLES
    items,      \* the FlatItem[] handed to nestFlatToTree
    tree,       \* what nestFlatToTree produced (or that it threw)
    pc,         \* "input" before a call; "built" / "thrown" / "packed" after it
    overlayNode,    \* the TreeNode handed to computeBubblePackingLayout
    overlaySide,    \* the canvas side handed to it, in pixels
    overlayLayout,  \* what computeBubblePackingLayout returned
    comp,           \* the component that is mounted ("none": a bare call)
    focusName,      \* useState<string>("root"): the main view's focus
    isOverlayOpen,  \* useState(false)
    overlayFocusName,   \* useState<string | null>(null): <<>> or <<name>>;
                        \* overlayName in the component that has no
                        \* isOverlayOpen
    packRoot,       \* CircularPacking: the layout object of the last render
    zoomFocus,      \* CircularPacking: `focus`,
                    \* useState<HierarchyCircularNode | null>(null)
    url,            \* useDataset: the url of the last render
    fetches,        \* useDataset: one record for each run of the effect
    data,           \* useDataset: useState<Dataset | null>(null)
    err             \* useDataset: useState<string | null>(null)

zoomVars == <<packRoot, zoomFocus>>

fetchVars == <<url, fetches, data, err>>

uiVars == <<comp, focusName, isOverlayOpen, overlayFocusName, zoomVars, fetchVars>>

vars == <<items, tree, pc, overlayNode, overlaySide, overlayLayout,
          comp, focusName, isOverlayOpen, overlayFocusName,
          packRoot, zoomFocus, url, fetches, data, err>>

----------------------------------------------------------------------------
(* Bounds and input domains *)

MaxItems == 3
MaxChildren == 4
MaxGrand == 12

\* "" is a legal JavaScript string and is falsy in `node.parent ? ... : ...`
Names == {"", "a", "b"}

\* parent?: string -- <<>> is an absent field, <<p>> a present one
Absent == <<>>
Parents == {Absent} \cup {<<n>> : n \in Names}

\* level is a number; 0 and 7 are the two sides outside 1..6, 1 and 6 its two
\* ends.  A level-1 record is drawn with and without a parent field, an
\* out-of-range record without one (the call throws before any parent is
\* read).
LevelParent ==
    {<<0, Absent>>, <<7, Absent>>, <<1, Absent>>, <<1, <<"a">> >>,
     <<6, Absent>>, <<6, <<"a">> >>}
        \cup {<<2, p>> : p \in Parents}

FlatItem(n, lp, v) == [name |-> n, level |-> lp[1], parent |-> lp[2], value |-> v]

\* Every record carries its input position as its value, so that two records
\* of one input are never equal and the record a node was built from can be
\* told from the node.
Input(nm, lp) == [i \in DOMAIN nm |-> FlatItem(nm[i], lp[i], i)]

----------------------------------------------------------------------------
(* nestFlatToTree *)

\* a check of the upper end only ("validates max level <= 6")
LevelOutOfRange_OnlyMax(it) == it.level > 6

\* it.level < 1 || it.level > 6
LevelOutOfRange(it) == it.level < 1 \/ it.level > 6

EmptyMap == [keys |-> <<>>, val |-> <<>>]

\* byName.set(it.name, { ...it, children: [] }): a Map keeps a key at the
\* position of its first insertion and replaces the value of an existing key.
MapSet(m, it) ==
    IF \E i \in 1..Len(m.keys) : m.keys[i] = it.name
    THEN [keys |-> m.keys,
          val  |-> [i \in 1..Len(m.keys) |->
                        IF m.keys[i] = it.name THEN it ELSE m.val[i]]]
    ELSE [keys |-> Append(m.keys, it.name), val |-> Append(m.val, it)]

\* first loop: for (const it of items) { check; byName.set(...) }
RECURSIVE FillByName(_, _, _)
FillByName(its, i, m) ==
    IF i > Len(its) THEN m
    ELSE FillByName(its, i + 1, MapSet(m, its[i]))

\* index of a key in the map, 0 when the key is not there (byName.get)
MapIndex(m, n) ==
    IF \E i \in 1..Len(m.keys) : m.keys[i] = n
    THEN CHOOSE i \in 1..Len(m.keys) : m.keys[i] = n
    ELSE 0

\* a lookup that only finds the nodes placed before the node itself, as a
\* single pass over the input would
ParentLookup_SeenSoFar(m, node) ==
    IF node.parent = Absent \/ node.parent[1] = "" THEN 0
    ELSE IF MapIndex(m, node.parent[1]) < MapIndex(m, node.name)
         THEN MapIndex(m, node.parent[1])
         ELSE 0

\* node.parent ? byName.get(node.parent) : undefined
\* (an absent parent and the empty string are both falsy)
ParentLookup(m, node) ==
    IF node.parent = Absent \/ node.parent[1] = "" THEN 0
    ELSE MapIndex(m, node.parent[1])

\* an insertion at the head of the array instead of its end
Push_AtHead(arr, x) == <<x>> \o arr

\* roots.push(node), p.children.push(node)
Push(arr, x) == Append(arr, x)

\* second loop: for (const node of byName.values()) { attach }
\* acc.roots is the roots array, acc.kids[j] the children array of the j-th
\* node of the map; a node is referred to by its index in the map.
RECURSIVE Attach(_, _, _)
Attach(m, i, acc) ==
    IF i > Len(m.keys) THEN acc
    ELSE LET node == m.val[i]
             p    == ParentLookup(m, node)
         IN  IF node.level = 1 \/ p = 0
             THEN Attach(m, i + 1, [acc EXCEPT !.roots = Push(@, i)])
             ELSE Attach(m, i + 1, [acc EXCEPT !.kids[p] = Push(@, i)])

NoTree == [status |-> "none", keys |-> <<>>, val |-> <<>>, kids |-> <<>>, roots |-> <<>>]

nestFlatToTree(its) ==
    IF \E i \in 1..Len(its) : LevelOutOfRange(its[i])
    THEN [NoTree EXCEPT !.status = "thrown"]
    ELSE LET m   == FillByName(its, 1, EmptyMap)
             acc == Attach(m, 1, [roots |-> <<>>,
                                  kids  |-> [j \in 1..Len(m.keys) |-> <<>>]])
         IN  [status |-> "built", keys |-> m.keys, val |-> m.val,
              kids |-> acc.kids, roots |-> acc.roots]

----------------------------------------------------------------------------
(* Fixed-point arithmetic for the layout                                    *)
(* Lengths are integers in hundredths of a pixel, angles in 1/10000 radian, *)
(* sines and cosines in 1/10000.  Every canvas side drawn below is a        *)
(* multiple of 10 pixels, so the linear quantities of the layout            *)
(* (0.16*side, 0.06*side + gc*0.005*side, ...) are exact; quotients by pi,  *)
(* angles and trigonometric values are rounded to the unit.                 *)

Unit == 10 * 10             \* hundredths of a pixel in a pixel
Scale == 100 * 100          \* angle and trigonometry scale

Px(n) == n * Unit

\* Math.PI in 1/10000 radian
Pi == 31416
HalfPi == Pi \div 2
TwoPi == 2 * Pi

Max2(a, b) == IF a >= b THEN a ELSE b
Min2(a, b) == IF a <= b THEN a ELSE b
Abs(a) == IF a < 0 THEN 0 - a ELSE a

\* const clamp = (v, min, max) => Math.max(min, Math.min(max, v))
clamp(v, min, max) == Max2(min, Min2(max, v))

\* sine and cosine of an angle x in 0..HalfPi, by their Taylor polynomials
\* in Horner form (degree 9 and 8)
SinQ(x) ==
    LET y  == (x * x) \div Scale
        t4 == Scale - (y \div 72)
        t3 == Scale - ((y * t4) \div Scale) \div 42
        t2 == Scale - ((y * t3) \div Scale) \div 20
        t1 == Scale - ((y * t2) \div Scale) \div 6
    IN  (x * t1) \div Scale

CosQ(x) ==
    LET y  == (x * x) \div Scale
        u4 == Scale - (y \div 56)
        u3 == Scale - ((y * u4) \div Scale) \div 30
        u2 == Scale - ((y * u3) \div Scale) \div 12
    IN  Scale - ((y * u2) \div Scale) \div 2

\* Math.sin, Math.cos of any angle
Sin(a) ==
    LET b == a % TwoPi
    IN  IF b <= HalfPi THEN SinQ(b)
        ELSE IF b <= Pi THEN SinQ(Pi - b)
        ELSE IF b <= Pi + HalfPi THEN 0 - SinQ(b - Pi)
        ELSE 0 - SinQ(TwoPi - b)

Cos(a) ==
    LET b == a % TwoPi
    IN  IF b <= HalfPi THEN CosQ(b)
        ELSE IF b <= Pi THEN 0 - CosQ(Pi - b)
        ELSE IF b <= Pi + HalfPi THEN 0 - CosQ(b - Pi)
        ELSE CosQ(TwoPi - b)

\* one step of Newton's iteration for the square root of n
Newton(n, g) == (g + n \div g) \div 2

\* Math.hypot(dx, dy).  The squares are taken of tenths of the operands to
\* stay inside 32-bit integers, so the result is good to a tenth of a pixel.
\* The root is the floor of the square root: three Newton steps from the
\* over-estimate max + min/2 land within one of it.
Hypot(dx, dy) ==
    LET a  == Abs(dx) \div 10
        b  == Abs(dy) \div 10
        n  == a * a + b * b
        g0 == Max2(a, b) + Min2(a, b) \div 2
        g3 == Newton(n, Newton(n, Newton(n, g0)))
    IN  IF n = 0 THEN 0
        ELSE 10 * (CHOOSE r \in (g3 - 1)..(g3 + 1) :
                        r * r <= n /\ n < (r + 1) * (r + 1))

----------------------------------------------------------------------------
(* computeBubblePackingLayout *)

\* a focus node: its name and its children, each with its own children
ChildrenOf(node) == node.children

\* const rParent = clamp(side * 0.16, 40, 120)
rParent(side) == clamp(16 * side, Px(40), Px(120))

\* r = clamp(side*0.06 + gc*(side*0.005), side*0.05, side*0.12)
ChildRadius(side, gc) ==
    clamp(6 * side + (gc * side * 5) \div 10, 5 * side, 12 * side)

\* childInfo = children.map(c => ({ node: c, r, gc }))
childInfo(focus, side) ==
    [i \in 1..Len(ChildrenOf(focus)) |->
        LET c == ChildrenOf(focus)[i]
        IN  [node |-> c, r |-> ChildRadius(side, Len(c.children)),
             gc |-> Len(c.children)]]

\* const gapC = clamp(side * 0.008, 6, 16)
gapC(side) == clamp((8 * side) \div 10, Px(6), Px(16))

\* childInfo.reduce((acc, it) => acc + (2 * it.r + gapC), 0)
circumferenceNeeded(info, side) ==
    LET acc[i \in 0..Len(info)] ==
            IF i = 0 THEN 0 ELSE acc[i - 1] + (2 * info[i].r + gapC(side))
    IN  acc[Len(info)]

\* childInfo.reduce((m, it) => Math.max(m, it.r), 0)
MaxR(info) ==
    LET m[i \in 0..Len(info)] ==
            IF i = 0 THEN 0 ELSE Max2(m[i - 1], info[i].r)
    IN  m[Len(info)]

\* the fixed margin between the focus bubble and the ring of children
RingMargin == 28

\* a ring sized by the smallest child instead of the largest
MinR(info) ==
    LET m[i \in 0..Len(info)] ==
            IF i <= 1 THEN (IF Len(info) = 0 THEN 0 ELSE info[1].r)
            ELSE Min2(m[i - 1], info[i].r)
    IN  m[Len(info)]

baseRing_MinChild(info, side) == rParent(side) + MinR(info) + Px(RingMargin)

\* rParent + (childInfo.reduce((m, it) => Math.max(m, it.r), 0) || 0) + 28
baseRing(info, side) == rParent(side) + MaxR(info) + Px(RingMargin)

\* x / (2 * Math.PI)
DivTwoPi(x) == (x * 1000) \div ((2 * Pi) \div 10)

\* a ring sized by the circumference the children need alone
ringR_NeededOnly(info, side) == DivTwoPi(circumferenceNeeded(info, side))

\* const ringR = Math.max(baseRing, circumferenceNeeded / (2 * Math.PI))
ringR(info, side) ==
    Max2(baseRing(info, side), DivTwoPi(circumferenceNeeded(info, side)))

\* const ringCirc = 2 * Math.PI * ringR, the product taken of tenths
ringCirc(R) == ((TwoPi \div 10) * (R \div 10)) \div (Scale \div 100)

\* const delta = (arcLen / ringCirc) * 2 * Math.PI, with ringCirc =
\* 2 * Math.PI * ringR: the angle of the arc of length arcLen on a ring of
\* radius R
Delta(arcLen, R) == (arcLen * Scale) \div R

NoParent == <<>>

\* placedChildren = childInfo.map(it => ({ id, name, depth: 1, r, x, y,
\*                                          parentId, angle }))
\* on a ring of radius R; theta[i] is the running `theta` after the i-th child
PlaceChildren(focus, side, info, R) ==
    LET n == Len(info)
        delta[i \in 1..n] == Delta(2 * info[i].r + gapC(side), R)
        theta[i \in 0..n] == IF i = 0 THEN 0 ELSE theta[i - 1] + delta[i]
        mid[i \in 1..n]   == theta[i - 1] + delta[i] \div 2
    IN  SubSeq([i \in 1..n |->
                [id       |-> info[i].node.name,
                 name     |-> info[i].node.name,
                 depth    |-> 1,
                 r        |-> info[i].r,
                 x        |-> (side * Unit) \div 2 + (R * Cos(mid[i])) \div Scale,
                 y        |-> (side * Unit) \div 2 + (R * Sin(mid[i])) \div Scale,
                 parentId |-> <<focus.name>>,
                 angle    |-> mid[i],
                 gcNodes  |-> info[i].node.children]], 1, n)

placedChildren(focus, side) ==
    PlaceChildren(focus, side, childInfo(focus, side),
                  ringR(childInfo(focus, side), side))

\* const gapG = clamp(side * 0.006, 4, 12)
gapG(side) == clamp((6 * side) \div 10, Px(4), Px(12))

\* const minGrandR = clamp(side * 0.042, 13, 32)
minGrandR(side) == clamp((42 * side) \div 10, Px(13), Px(32))

\* const arcSpan = (150 * Math.PI) / 180
arcSpan == (150 * Pi) \div 180

\* const safety = 6
safety == 6

Infinity == [inf |-> TRUE, v |-> 0]
Finite(v) == [inf |-> FALSE, v |-> v]

\* placedChildren.findIndex(p => p.id === ch.id)
findIndex(placed, id) ==
    CHOOSE i \in 1..Len(placed) :
        placed[i].id = id /\ \A j \in 1..(i - 1) : placed[j].id # id

\* function neighborRingCap(ch, rG)
neighborRingCap(placed, ch, rG) ==
    LET childCount == Len(placed)
    IN  IF childCount <= 1 THEN Infinity
        ELSE LET idx      == findIndex(placed, ch.id)
                 \* indices are 1-based here, 0-based in the source
                 prev     == placed[((idx - 1 - 1 + childCount) % childCount) + 1]
                 next     == placed[((idx - 1 + 1) % childCount) + 1]
                 distPrev == Hypot(ch.x - prev.x, ch.y - prev.y)
                 distNext == Hypot(ch.x - next.x, ch.y - next.y)
                 capPrev  == distPrev - prev.r - rG - Px(safety)
                 capNext  == distNext - next.r - rG - Px(safety)
             IN  Finite(Max2(0, Min2(capPrev, capNext)))

\* Math.max(neededArcLen / arcSpan, ch.r + rG + safety)
ringGminOf(N, side, ch, rG) ==
    Max2((N * (2 * rG + gapG(side)) * Scale) \div arcSpan,
         ch.r + rG + Px(safety))

\* a final ring radius that a positive neighbour cap does lower:
\* if (isFinite(ringGmax) && ringGmax > 0) ringG = Math.min(ringG, ringGmax)
GrandRingFinal_Capped(rG, ringGmin, ringGmax, shrunk) ==
    [rG       |-> rG,
     ringG    |-> IF ringGmax.inf \/ ringGmax.v <= 0 THEN Max2(ringGmin, 0)
                  ELSE Min2(Max2(ringGmin, 0), ringGmax.v),
     ringGmin |-> ringGmin,
     ringGmax |-> ringGmax,
     shrunk   |-> shrunk]

\* let ringG = Math.max(ringGmin, 0);
\* if (isFinite(ringGmax)) ringG = Math.min(ringG, Math.max(ringGmax, ringGmin));
\* the grandchild radius and ring radius settled for one child
GrandRingFinal(rG, ringGmin, ringGmax, shrunk) ==
    [rG       |-> rG,
     ringG    |-> IF ringGmax.inf THEN Max2(ringGmin, 0)
                  ELSE Min2(Max2(ringGmin, 0), Max2(ringGmax.v, ringGmin)),
     ringGmin |-> ringGmin,
     ringGmax |-> ringGmax,
     shrunk   |-> shrunk]

\* a relaxation that runs a second time when the reduced radius still needs
\* more room than the neighbours leave
GrandRingShrunk_Again(placed, side, ch, rG) ==
    IF neighborRingCap(placed, ch, rG).v < ringGminOf(Len(ch.gcNodes), side, ch, rG)
    THEN GrandRingFinal(Max2(Px(6), (rG * 65) \div 100),
                        ringGminOf(Len(ch.gcNodes), side, ch,
                                   Max2(Px(6), (rG * 65) \div 100)),
                        neighborRingCap(placed, ch,
                                        Max2(Px(6), (rG * 65) \div 100)),
                        TRUE)
    ELSE GrandRingFinal(rG,
                        ringGminOf(Len(ch.gcNodes), side, ch, rG),
                        neighborRingCap(placed, ch, rG),
                        TRUE)

\* the body of `if (ringGmax < ringGmin && ...)`, rG being the reduced radius:
\* ringGmin and ringGmax are computed again from it
GrandRingShrunk(placed, side, ch, rG) ==
    GrandRingFinal(rG,
                   ringGminOf(Len(ch.gcNodes), side, ch, rG),
                   neighborRingCap(placed, ch, rG),
                   TRUE)

\* if (ringGmax < ringGmin && isFinite(ringGmax) && ringGmax > 0) {
\*   const ratio = clamp(ringGmax / ringGmin, 0.65, 1);
\*   rG = Math.max(6, rG * ratio); ... }
GrandRingTry(placed, side, ch, rG, ringGmin, ringGmax) ==
    IF ~ringGmax.inf /\ ringGmax.v < ringGmin /\ ringGmax.v > 0
    THEN GrandRingShrunk(placed, side, ch,
            Max2(Px(6),
                 (rG * clamp((ringGmax.v * Scale) \div ringGmin,
                             (65 * Scale) \div 100, Scale)) \div Scale))
    ELSE GrandRingFinal(rG, ringGmin, ringGmax, FALSE)

\* the body of `for (const ch of placedChildren)` up to the final ring
\* radius, starting from rG = minGrandR
GrandRing(placed, side, ch) ==
    GrandRingTry(placed, side, ch,
                 minGrandR(side),
                 ringGminOf(Len(ch.gcNodes), side, ch, minGrandR(side)),
                 neighborRingCap(placed, ch, minGrandR(side)))

\* const stepTheta = (2 * rG + gapG) / ringG
stepTheta(side, g) == ((2 * g.rG + gapG(side)) * Scale) \div g.ringG

\* a placement that starts the arc at the outward direction instead of
\* centring it there
thetaStart_AtAngle(ch, step) == ch.angle

\* const thetaStart = ch.angle - totalTheta / 2, totalTheta = (N - 1) * stepTheta
thetaStart(ch, step) == ch.angle - ((Len(ch.gcNodes) - 1) * step) \div 2

\* for (let i = 0; i < N; i++) { ...; placedGrandchildren.push({...}) }
PlaceGrandchildren(ch, g, step, start) ==
    [i \in 1..Len(ch.gcNodes) |->
        [id       |-> ch.id \o "::" \o ch.gcNodes[i].name,
         name     |-> ch.gcNodes[i].name,
         depth    |-> 2,
         r        |-> g.rG,
         x        |-> ch.x + (g.ringG * Cos(start + (i - 1) * step)) \div Scale,
         y        |-> ch.y + (g.ringG * Sin(start + (i - 1) * step)) \div Scale,
         parentId |-> <<ch.id>>]]

PlaceOnRing(side, ch, g) ==
    PlaceGrandchildren(ch, g, stepTheta(side, g),
                       thetaStart(ch, stepTheta(side, g)))

\* the grandchildren pushed for one child: if (!N) continue
GrandchildrenOf(placed, side, ch) ==
    IF Len(ch.gcNodes) = 0 THEN <<>>
    ELSE PlaceOnRing(side, ch, GrandRing(placed, side, ch))

\* the concatenation of the sequences per[1], ..., per[n]
Flatten(per) ==
    LET n == Len(per)
        end[i \in 0..n] == IF i = 0 THEN 0 ELSE end[i - 1] + Len(per[i])
        owner(k) == CHOOSE i \in 1..n : end[i - 1] < k /\ k <= end[i]
    IN  [k \in 1..end[n] |-> per[owner(k)][k - end[owner(k) - 1]]]

\* a loop that stops at the first child without children (break for continue)
placedGrandchildren_BreakOnChildless(placed, side) ==
    Flatten(SubSeq([i \in 1..Len(placed) |->
        IF \E j \in 1..i : Len(placed[j].gcNodes) = 0 THEN <<>>
        ELSE SubSeq(GrandchildrenOf(placed, side, placed[i]),
                    1, Len(placed[i].gcNodes))], 1, Len(placed)))

\* for (const ch of placedChildren) { ...; placedGrandchildren.push(...) }
placedGrandchildren(placed, side) ==
    Flatten(SubSeq([i \in 1..Len(placed) |->
        SubSeq(GrandchildrenOf(placed, side, placed[i]),
               1, Len(placed[i].gcNodes))], 1, Len(placed)))

\* a PlacedBubble without the fields the layout adds for its own use
Bubble(b) ==
    [id |-> b.id, name |-> b.name, depth |-> b.depth, r |-> b.r,
     x |-> b.x, y |-> b.y, parentId |-> b.parentId]

parentPlaced(focus, side) ==
    [id |-> focus.name, name |-> focus.name, depth |-> 0, r |-> rParent(side),
     x |-> (side * Unit) \div 2, y |-> (side * Unit) \div 2, parentId |-> NoParent]

\* const nodes = [parentPlaced, ...placedChildren, ...placedGrandchildren]
Nodes(focus, side, placed) ==
    <<parentPlaced(focus, side)>>
        \o [i \in 1..Len(placed) |-> Bubble(placed[i])]
        \o placedGrandchildren(placed, side)

\* return { nodes, side }
computeBubblePackingLayout(focus, side) ==
    [nodes |-> Nodes(focus, side, placedChildren(focus, side)), side |-> side]

----------------------------------------------------------------------------
(* Specification of the tree builder: an input is chosen, then built *)

NoFocus == [name |-> "", children |-> <<>>]
NoLayout == [nodes |-> <<>>, side |-> 0]

\* no component is mounted: the state variables of the components keep
\* their initial values
\* CircularPacking is not rendered: useState(null), no layout object yet
NoZoom == packRoot = 0 /\ zoomFocus = Absent

\* useDataset is not in use: useState(null) twice, no run of the effect
NoDataset == url = "" /\ fetches = <<>> /\ data = Absent /\ err = Absent

NotMounted ==
    /\ comp = "none"
    /\ focusName = "root"
    /\ isOverlayOpen = FALSE
    /\ overlayFocusName = Absent
    /\ NoZoom
    /\ NoDataset

Init ==
    /\ \E k \in 0..MaxItems :
          \E nm \in [1..k -> Names], lp \in [1..k -> LevelParent] :
              items = Input(nm, lp)
    /\ tree = NoTree
    /\ pc = "input"
    /\ overlayNode = NoFocus
    /\ overlaySide = 0
    /\ overlayLayout = NoLayout
    /\ NotMounted

Build ==
    /\ pc = "input"
    /\ tree' = nestFlatToTree(items)
    /\ pc' = IF tree'.status = "thrown" THEN "thrown" ELSE "built"
    /\ UNCHANGED <<items, overlayNode, overlaySide, overlayLayout, uiVars>>

Next == Build

Spec == Init /\ [][Next]_vars

----------------------------------------------------------------------------
(* Specification of the packer: a focus node and a canvas side are chosen,  *)
(* then laid out                                                            *)

\* canvas sides: none and a thumbnail of 100 (the function takes any side),
\* and sides the overlay gets from Math.floor(Math.min(vw, vh) * 0.9): a phone,
\* a laptop, the default 900, a large and a very large screen
Sides == {0, 100, 320, 600, 900, 1200, 2000}

\* numbers of grandchildren under one child
GcCounts == {0, 1, 3, MaxGrand}

\* a focus node with Len(gcs) children, the i-th with gcs[i] children of its
\* own; grandchild names repeat under different children
FocusOf(gcs) ==
    [name |-> "focus",
     children |-> [i \in 1..Len(gcs) |->
        [name |-> "c" \o ToString(i),
         children |-> [j \in 1..gcs[i] |->
            [name |-> "g" \o ToString(j), children |-> <<>>]]]]]

InitPack ==
    /\ items = <<>>
    /\ tree = NoTree
    /\ pc = "input"
    /\ \E k \in 0..MaxChildren :
          \E gcs \in [1..k -> GcCounts] : overlayNode = FocusOf(gcs)
    /\ overlaySide \in Sides
    /\ overlayLayout = NoLayout
    /\ NotMounted

Pack ==
    /\ pc = "input"
    /\ overlayLayout' = computeBubblePackingLayout(overlayNode, overlaySide)
    /\ pc' = "packed"
    /\ UNCHANGED <<items, tree, overlayNode, overlaySide, uiVars>>

NextPack == Pack

SpecPack == InitPack /\ [][NextPack]_vars

----------------------------------------------------------------------------
(* Reading a built tree *)

SeqToSet(s) == {s[i] : i \in DOMAIN s}

Idx(t) == 1..Len(t.keys)

\* the nodes found by walking children lists down from the synthetic root
RECURSIVE ReachFrom(_, _, _)
ReachFrom(t, S, n) ==
    IF n = 0 THEN S
    ELSE ReachFrom(t, S \cup UNION {SeqToSet(t.kids[i]) : i \in S}, n - 1)

Reach(t) == ReachFrom(t, SeqToSet(t.roots), Len(t.keys))

\* the holders of node i: 0 stands for the synthetic root
Holders(t, i) ==
    {j \in Idx(t) : i \in SeqToSet(t.kids[j])}
        \cup (IF i \in SeqToSet(t.roots) THEN {0} ELSE {})

\* the name of the holder of the node called n: <<>> for root
ParentNames(t, n) ==
    {IF j = 0 THEN <<>> ELSE <<t.keys[j]>> :
        j \in UNION {Holders(t, i) : i \in {k \in Idx(t) : t.keys[k] = n}}}

LevelsValid(its) == \A i \in 1..Len(its) : its[i].level \in 1..6

NamesUnique(its) ==
    \A i, j \in 1..Len(its) : its[i].name = its[j].name => i = j

\* the record is the last one of the input with its name
IsLast(its, k) == \A j \in 1..Len(its) : its[j].name = its[k].name => j <= k

\* position of the first record called n
FirstPos(its, n) == CHOOSE i \in 1..Len(its) :
    /\ its[i].name = n
    /\ \A j \in 1..Len(its) : its[j].name = n => i <= j

\* the map index of the node called n in a built tree
NodeOf(t, n) == CHOOSE i \in Idx(t) : t.keys[i] = n

Orderings(n) == {f \in [1..n -> 1..n] : \A i, j \in 1..n : f[i] = f[j] => i = j}

----------------------------------------------------------------------------
(* Walking the tree.  A TreeNode reference is the node's index in byName,   *)
(* 0 for the synthetic root { name: "root", children: roots }.              *)

Root == 0
Null == 0 - 1

NameOf(t, i) == IF i = Root THEN "root" ELSE t.keys[i]

\* node.children; a null node has none
KidsOf(t, i) ==
    IF i = Null THEN <<>> ELSE IF i = Root THEN t.roots ELSE t.kids[i]

\* n.data.children && n.data.children.length > 0
HasChildren(t, i) == Len(KidsOf(t, i)) > 0

\* the first position of a sequence of results that holds one, 0 if none
FirstHit(hits) ==
    IF hits = {} THEN 0 ELSE CHOOSE j \in hits : \A k \in hits : j <= k

\* function findNodeByName(root, name): Null for null
RECURSIVE findNodeByName(_, _, _)
findNodeByName(t, i, name) ==
    IF NameOf(t, i) = name THEN i
    ELSE LET ks == KidsOf(t, i)
             j  == FirstHit({k \in 1..Len(ks) :
                                findNodeByName(t, ks[k], name) # Null})
         IN  IF j = 0 THEN Null ELSE findNodeByName(t, ks[j], name)

\* a string | null result: <<>> for null, <<s>> for the string s
Truthy(r) == r # <<>> /\ r[1] # ""

\* function dfs(cur, parent) of findParentName(root, targetName)
RECURSIVE dfs(_, _, _, _)
dfs(t, cur, parent, targetName) ==
    IF NameOf(t, cur) = targetName
    THEN (IF parent = Null THEN <<>> ELSE <<NameOf(t, parent)>>)
    ELSE LET ks == KidsOf(t, cur)
             j  == FirstHit({k \in 1..Len(ks) :
                                Truthy(dfs(t, ks[k], cur, targetName))})
         IN  IF j = 0 THEN <<>> ELSE dfs(t, ks[j], cur, targetName)

findParentName(t, targetName) == dfs(t, Root, Null, targetName)

\* function findParent(current, parent) of drillUp:
\*   if (current.name === focusName) return parent?.name || "root"
RECURSIVE findParent(_, _, _, _)
findParent(t, current, parent, name) ==
    IF NameOf(t, current) = name
    THEN (IF parent = Null \/ NameOf(t, parent) = "" THEN <<"root">>
          ELSE <<NameOf(t, parent)>>)
    ELSE LET ks == KidsOf(t, current)
             j  == FirstHit({k \in 1..Len(ks) :
                                Truthy(findParent(t, ks[k], current, name))})
         IN  IF j = 0 THEN <<>> ELSE findParent(t, ks[j], current, name)

\* the node whose children list holds node i: Root when it is in roots
HolderOf(t, i) ==
    IF \E j \in 1..Len(t.keys) : \E k \in 1..Len(t.kids[j]) : t.kids[j][k] = i
    THEN CHOOSE j \in 1..Len(t.keys) :
            \E k \in 1..Len(t.kids[j]) : t.kids[j][k] = i
    ELSE Root

\* the trail of names from the synthetic root down to node i
RECURSIVE Trail(_, _)
Trail(t, i) ==
    IF i = Root THEN <<"root">>
    ELSE Append(Trail(t, HolderOf(t, i)), NameOf(t, i))

\* a breadcrumb that stops at the holder of the focus node
breadcrumb_WithoutFocus(t, name) ==
    IF findNodeByName(t, Root, name) \in {Null, Root} THEN <<>>
    ELSE SelectSeq(Trail(t, HolderOf(t, findNodeByName(t, Root, name))),
                   LAMBDA x : x # "root")

\* breadcrumb: the path from root to the first node called focusName,
\* without the names equal to "root"; empty when no node is called so
breadcrumb(t, name) ==
    IF findNodeByName(t, Root, name) = Null THEN <<>>
    ELSE SelectSeq(Trail(t, findNodeByName(t, Root, name)),
                   LAMBDA x : x # "root")

\* focusNode = findNodeByName(tree, focusName) ?? tree
focusNode(t, name) ==
    IF findNodeByName(t, Root, name) = Null THEN Root
    ELSE findNodeByName(t, Root, name)

\* overlayNode = overlayFocusName ? findNodeByName(tree, overlayFocusName) : null
overlayNodeOf(t, ofn) ==
    IF Truthy(ofn) THEN findNodeByName(t, Root, ofn[1]) ELSE Null

\* the TreeNode object of node i as computeBubblePackingLayout reads it: its
\* name, its children and their children's names
LeafOf(t, i) == [name |-> NameOf(t, i), children |-> <<>>]

ChildOf(t, i) ==
    [name |-> NameOf(t, i),
     children |-> [k \in 1..Len(KidsOf(t, i)) |-> LeafOf(t, KidsOf(t, i)[k])]]

TreeNodeOf(t, i) ==
    [name |-> NameOf(t, i),
     children |-> [k \in 1..Len(KidsOf(t, i)) |-> ChildOf(t, KidsOf(t, i)[k])]]

\* the `data` fields of the bubbles of computeBubblePackingLayout(node i),
\* in the order of `nodes`: the focus, its children, then each child's
\* children
LayoutData(t, i) ==
    IF i = Null THEN <<>>
    ELSE <<i>> \o KidsOf(t, i)
             \o Flatten([k \in 1..Len(KidsOf(t, i)) |-> KidsOf(t, KidsOf(t, i)[k])])

----------------------------------------------------------------------------
(* The depth-limited clone of the overlay node                              *)

\* an object of the clone: the node it was made from, whether it is a new
\* object ({ ...node }) or the node of the tree itself, and its children
CloneOf(i, copy, children) == [node |-> i, copy |-> copy, children |-> children]

\* a clone made with `const out = node`, which is the node of the tree
RECURSIVE cloneDepthLimited_NoSpread(_, _, _)
cloneDepthLimited_NoSpread(t, i, maxDepth) ==
    IF maxDepth <= 0 \/ ~HasChildren(t, i)
    THEN CloneOf(i, FALSE, <<>>)
    ELSE CloneOf(i, FALSE,
                 [k \in 1..Len(KidsOf(t, i)) |->
                     cloneDepthLimited_NoSpread(t, KidsOf(t, i)[k], maxDepth - 1)])

\* function cloneDepthLimited(node, maxDepth): const out = { ...node }
RECURSIVE cloneDepthLimited(_, _, _)
cloneDepthLimited(t, i, maxDepth) ==
    IF maxDepth <= 0 \/ ~HasChildren(t, i)
    THEN CloneOf(i, TRUE, <<>>)
    ELSE CloneOf(i, TRUE,
                 [k \in 1..Len(KidsOf(t, i)) |->
                     cloneDepthLimited(t, KidsOf(t, i)[k], maxDepth - 1)])

\* const weights = [1000, 300, 80]
weights == <<1000, 300, 80>>

\* the tree after `node.value = w` on the object of node i of the tree
SetValue(t, i, w) ==
    IF i = Root
    THEN [f \in DOMAIN t \cup {"value"} |-> IF f = "value" THEN w ELSE t[f]]
    ELSE [t EXCEPT !.val[i] = [@ EXCEPT !.value = w]]

\* function assignDepthValues(node, depth = 0), as the tree it leaves: a
\* write on a new object of the clone leaves the tree as it is
RECURSIVE assignDepthValues(_, _, _)
RECURSIVE AssignEach(_, _, _, _)
assignDepthValues(t, c, depth) ==
    AssignEach(IF c.copy THEN t
               ELSE SetValue(t, c.node, weights[Min2(depth, Len(weights) - 1) + 1]),
               c.children, 1, depth + 1)

\* (node.children || []).forEach((c) => assignDepthValues(c, depth + 1))
AssignEach(t, cs, k, depth) ==
    IF k > Len(cs) THEN t
    ELSE AssignEach(assignDepthValues(t, cs[k], depth), cs, k + 1, depth)

----------------------------------------------------------------------------
(* Specification of the components: a dataset is mounted in one of the      *)
(* three bubble components, then the user clicks                            *)

\* NewBubbleHierarchy (FinanceSigmaGraph.tsx), BubbleHierarchy
\* (CircularPackingHierarchy.tsx), and the earlier BubbleHierarchy that
\* keeps (focusName, overlayName)
New == "NewBubbleHierarchy"
Packed == "BubbleHierarchy"
TwoState == "BubbleHierarchy (focusName, overlayName)"
Components == {New, Packed, TwoState}

\* the datasets mounted: chains up to three levels deep, orphans, and a
\* record that is itself called "root"
UINames == {"a", "b", "root"}
UILevelParent ==
    {<<1, Absent>>, <<2, <<"a">> >>, <<3, <<"b">> >>, <<2, <<"root">> >>}

\* Math.floor(Math.min(vw, vh) * 0.9) for the default width = 900 and
\* height = 600
DefaultSide == 540

\* the overlay is in the document:
\*   {isOverlayOpen && overlayNode && overlayLayout && (...)}
\*   {overlayNode && overlayPack && (...)}, overlayPack being null for a
\*   node without children
OverlayShown ==
    IF comp = TwoState
    THEN /\ overlayNodeOf(tree, overlayFocusName) # Null
         /\ HasChildren(tree, overlayNodeOf(tree, overlayFocusName))
    ELSE isOverlayOpen /\ overlayNodeOf(tree, overlayFocusName) # Null

\* the useMemo values that follow the state: overlayNode; overlayLayout in
\* the component that packs bubbles itself; in BubbleHierarchy overlayPack,
\* made from cloneDepthLimited(overlayNode, 2) after assignDepthValues has
\* written on it
Render ==
    /\ tree' =
          IF comp = Packed /\ overlayNodeOf(tree, overlayFocusName') # Null
          THEN assignDepthValues(
                   tree,
                   cloneDepthLimited(tree, overlayNodeOf(tree, overlayFocusName'), 2),
                   0)
          ELSE tree
    /\ overlayNode' =
          IF overlayNodeOf(tree, overlayFocusName') = Null THEN NoFocus
          ELSE TreeNodeOf(tree, overlayNodeOf(tree, overlayFocusName'))
    /\ overlayLayout' =
          IF comp = New /\ overlayNodeOf(tree, overlayFocusName') # Null
          THEN computeBubblePackingLayout(
                    TreeNodeOf(tree, overlayNodeOf(tree, overlayFocusName')),
                    overlaySide)
          ELSE NoLayout

InitUI ==
    /\ \E k \in 0..MaxItems :
          \E nm \in [1..k -> UINames], lp \in [1..k -> UILevelParent] :
              items = Input(nm, lp)
    /\ tree = nestFlatToTree(items)
    /\ pc = "mounted"
    /\ comp \in Components
    /\ focusName = "root"
    /\ isOverlayOpen = FALSE
    /\ overlayFocusName = Absent
    /\ overlayNode = NoFocus
    /\ overlaySide = DefaultSide
    /\ overlayLayout = NoLayout
    /\ NoZoom
    /\ NoDataset

\* the bubbles of the main view: packRoot.descendants() of depth 1, the
\* children of the focus node
MainBubbles == KidsOf(tree, focusNode(tree, focusName))

\* a click that also makes the bubble's node the main focus
handleBubbleClick_SetsFocus(d) ==
    /\ pc = "mounted"
    /\ comp \in {New, Packed}
    /\ IF HasChildren(tree, d)
       THEN /\ overlayFocusName' = <<NameOf(tree, d)>>
            /\ isOverlayOpen' = TRUE
            /\ focusName' = NameOf(tree, d)
       ELSE UNCHANGED <<overlayFocusName, isOverlayOpen, focusName>>
    /\ Render
    /\ UNCHANGED <<zoomVars, fetchVars, items, pc, overlaySide, comp>>

\* handleBubbleClick(n) of the two components with isOverlayOpen
handleBubbleClick(d) ==
    /\ pc = "mounted"
    /\ comp \in {New, Packed}
    /\ IF HasChildren(tree, d)
       THEN /\ overlayFocusName' = <<NameOf(tree, d)>>
            /\ isOverlayOpen' = TRUE
       ELSE UNCHANGED <<overlayFocusName, isOverlayOpen>>
    /\ Render
    /\ UNCHANGED <<zoomVars, fetchVars, items, pc, overlaySide, comp, focusName>>

\* overlayDrillDown(n: PlacedBubble) of NewBubbleHierarchy:
\*   target = findNodeByName(tree, n.name)
overlayDrillDown(n) ==
    /\ pc = "mounted"
    /\ comp = New
    /\ OverlayShown
    /\ IF /\ findNodeByName(tree, Root, n.name) # Null
          /\ HasChildren(tree, findNodeByName(tree, Root, n.name))
       THEN overlayFocusName' = <<n.name>>
       ELSE UNCHANGED overlayFocusName
    /\ Render
    /\ UNCHANGED <<zoomVars, fetchVars, items, pc, overlaySide, comp, focusName, isOverlayOpen>>

\* the children list of a bubble of overlayPack at the given depth:
\* cloneDepthLimited(overlayNode, 2) empties it at depth 2
ClonedKids(t, i, depth) == IF depth >= 2 THEN <<>> ELSE KidsOf(t, i)

\* overlayPack.descendants().filter(d => d.depth <= 2): the overlay node,
\* its children and their children, as <<node, depth>>
OverlayBubbles(t, i) ==
    (IF i = Null THEN {} ELSE {<<i, 0>>})
        \cup {<<KidsOf(t, i)[k], 1>> : k \in 1..Len(KidsOf(t, i))}
        \cup UNION {{<<KidsOf(t, KidsOf(t, i)[k])[l], 2>> :
                        l \in 1..Len(KidsOf(t, KidsOf(t, i)[k]))} :
                    k \in 1..Len(KidsOf(t, i))}

\* overlayDrillDown(n: HierarchyNode) of BubbleHierarchy
overlayDrillDownPacked(d) ==
    /\ pc = "mounted"
    /\ comp = Packed
    /\ OverlayShown
    /\ IF Len(ClonedKids(tree, d[1], d[2])) > 0
       THEN overlayFocusName' = <<NameOf(tree, d[1])>>
       ELSE UNCHANGED overlayFocusName
    /\ Render
    /\ UNCHANGED <<zoomVars, fetchVars, items, pc, overlaySide, comp, focusName, isOverlayOpen>>

\* overlayDrillUp(), the same in both components
overlayDrillUp ==
    /\ pc = "mounted"
    /\ comp \in {New, Packed}
    /\ OverlayShown
    /\ IF ~Truthy(overlayFocusName)
       THEN UNCHANGED <<overlayFocusName, isOverlayOpen>>
       ELSE IF Truthy(findParentName(tree, overlayFocusName[1]))
            THEN /\ overlayFocusName' = findParentName(tree, overlayFocusName[1])
                 /\ UNCHANGED isOverlayOpen
            ELSE /\ isOverlayOpen' = FALSE
                 /\ UNCHANGED overlayFocusName
    /\ Render
    /\ UNCHANGED <<zoomVars, fetchVars, items, pc, overlaySide, comp, focusName>>

\* a Close that also forgets the overlay focus
closeOverlay_ClearsFocus ==
    /\ pc = "mounted"
    /\ comp \in {New, Packed}
    /\ OverlayShown
    /\ isOverlayOpen' = FALSE
    /\ overlayFocusName' = Absent
    /\ Render
    /\ UNCHANGED <<zoomVars, fetchVars, items, pc, overlaySide, comp, focusName>>

\* onClick={() => setIsOverlayOpen(false)} of the backdrop and of Close
closeOverlay ==
    /\ pc = "mounted"
    /\ comp \in {New, Packed}
    /\ OverlayShown
    /\ isOverlayOpen' = FALSE
    /\ UNCHANGED overlayFocusName
    /\ Render
    /\ UNCHANGED <<zoomVars, fetchVars, items, pc, overlaySide, comp, focusName>>

\* a drill-up that leaves the overlay alone in every component
drillUp_LeavesOverlay ==
    /\ pc = "mounted"
    /\ comp \in {New, TwoState}
    /\ focusName' =
          IF Truthy(findParent(tree, Root, Null, focusName))
          THEN findParent(tree, Root, Null, focusName)[1]
          ELSE "root"
    /\ overlayFocusName' = overlayFocusName
    /\ Render
    /\ UNCHANGED <<zoomVars, fetchVars, items, pc, overlaySide, comp, isOverlayOpen>>

\* a drill-up that goes back to the root view instead of one level up
drillUp_ToRoot ==
    /\ pc = "mounted"
    /\ comp \in {New, TwoState}
    /\ focusName' = "root"
    /\ overlayFocusName' = IF comp = TwoState THEN Absent ELSE overlayFocusName
    /\ Render
    /\ UNCHANGED <<zoomVars, fetchVars, items, pc, overlaySide, comp, isOverlayOpen>>

\* drillUp() of the header button; the component with isOverlayOpen leaves
\* the modal alone.  The button is rendered when the breadcrumb is not
\* empty; with the focus on root the handler sets the focus to root again.
drillUp ==
    /\ pc = "mounted"
    /\ comp \in {New, TwoState}
    /\ focusName' =
          IF Truthy(findParent(tree, Root, Null, focusName))
          THEN findParent(tree, Root, Null, focusName)[1]
          ELSE "root"
    /\ overlayFocusName' = IF comp = TwoState THEN Absent ELSE overlayFocusName
    /\ Render
    /\ UNCHANGED <<zoomVars, fetchVars, items, pc, overlaySide, comp, isOverlayOpen>>

\* handleBubbleClick(n) of the component with (focusName, overlayName)
handleBubbleClickTwoState(d) ==
    /\ pc = "mounted"
    /\ comp = TwoState
    /\ IF HasChildren(tree, d)
       THEN overlayFocusName' = <<NameOf(tree, d)>>
       ELSE UNCHANGED overlayFocusName
    /\ Render
    /\ UNCHANGED <<zoomVars, fetchVars, items, pc, overlaySide, comp, focusName, isOverlayOpen>>

\* drillIntoOverlay(n): setFocusName(n.data.name); setOverlayName(null)
drillIntoOverlay(d) ==
    /\ pc = "mounted"
    /\ comp = TwoState
    /\ OverlayShown
    /\ focusName' = NameOf(tree, d)
    /\ overlayFocusName' = Absent
    /\ Render
    /\ UNCHANGED <<zoomVars, fetchVars, items, pc, overlaySide, comp, isOverlayOpen>>

\* onClick={() => setOverlayName(null)} of the backdrop and of Close
closeOverlayTwoState ==
    /\ pc = "mounted"
    /\ comp = TwoState
    /\ OverlayShown
    /\ overlayFocusName' = Absent
    /\ Render
    /\ UNCHANGED <<zoomVars, fetchVars, items, pc, overlaySide, comp, focusName, isOverlayOpen>>

NextUI ==
    \/ \E k \in 1..Len(MainBubbles) : handleBubbleClick(MainBubbles[k])
    \/ \E k \in 1..Len(overlayLayout.nodes) : overlayDrillDown(overlayLayout.nodes[k])
    \/ \E d \in OverlayBubbles(tree, overlayNodeOf(tree, overlayFocusName)) :
          overlayDrillDownPacked(d)
    \/ overlayDrillUp
    \/ closeOverlay
    \/ drillUp
    \/ \E k \in 1..Len(MainBubbles) : handleBubbleClickTwoState(MainBubbles[k])
    \/ \E k \in 1..Len(KidsOf(tree, overlayNodeOf(tree, overlayFocusName))) :
          drillIntoOverlay(KidsOf(tree, overlayNodeOf(tree, overlayFocusName))[k])
    \/ closeOverlayTwoState

SpecUI == InitUI /\ [][NextUI]_vars

----------------------------------------------------------------------------
(* Specification of CircularPacking: the zoomable packed circles            *)

Zoom == "CircularPacking"

\* layout objects made in one run: the first render and the renders after
\* a change of the canvas side
MaxPacks == 2

\* the first render: useState(null), packRoot made from the tree, the
\* effect useEffect(() => setFocus(packRoot), [packRoot]) still to run
InitZoom ==
    /\ \E k \in 0..MaxItems :
          \E nm \in [1..k -> UINames], lp \in [1..k -> UILevelParent] :
              items = Input(nm, lp)
    /\ tree = nestFlatToTree(items)
    /\ pc = "rendered"
    /\ comp = Zoom
    /\ focusName = "root"
    /\ isOverlayOpen = FALSE
    /\ overlayFocusName = Absent
    /\ overlayNode = NoFocus
    /\ overlaySide = DefaultSide
    /\ overlayLayout = NoLayout
    /\ packRoot = 1
    /\ zoomFocus = Absent
    /\ NoDataset

\* what CircularPacking never touches
zoomFrame ==
    <<fetchVars, items, tree, overlayNode, overlaySide, overlayLayout,
      comp, focusName, isOverlayOpen, overlayFocusName>>

\* packRoot.descendants().filter((d) => d.depth > 0)
ZoomBubbles == Reach(tree)

\* useEffect(() => setFocus(packRoot), [packRoot]); React runs a pending
\* effect before it handles a click
setFocusEffect ==
    /\ pc = "rendered"
    /\ comp = Zoom
    /\ zoomFocus' = <<packRoot, Root>>
    /\ pc' = "mounted"
    /\ UNCHANGED <<packRoot, zoomFrame>>

\* the container is resized: side changes and useMemo makes a new packRoot
resize ==
    /\ pc = "mounted"
    /\ comp = Zoom
    /\ packRoot < MaxPacks
    /\ packRoot' = packRoot + 1
    /\ pc' = "rendered"
    /\ UNCHANGED <<zoomFocus, zoomFrame>>

\* const handleBackgroundClick = () => setFocus(packRoot)
handleBackgroundClick ==
    /\ pc = "mounted"
    /\ comp = Zoom
    /\ zoomFocus' = <<packRoot, Root>>
    /\ UNCHANGED <<pc, packRoot, zoomFrame>>

\* handleNodeClick(d), as the focus it sets:
\*   if (focus === d && d.parent) setFocus(d.parent); else setFocus(d)
handleNodeClick(d) ==
    IF zoomFocus = <<packRoot, d>> /\ d # Root
    THEN <<packRoot, HolderOf(tree, d)>>
    ELSE <<packRoot, d>>

\* an onClick that calls handleNodeClick for every bubble
bubbleClick_AnyBubble(d) ==
    /\ pc = "mounted"
    /\ comp = Zoom
    /\ zoomFocus' = handleNodeClick(d)
    /\ UNCHANGED <<pc, packRoot, zoomFrame>>

\* onClick of a bubble: if (isBranch) handleNodeClick(d)
bubbleClick(d) ==
    /\ pc = "mounted"
    /\ comp = Zoom
    /\ zoomFocus' = IF HasChildren(tree, d) THEN handleNodeClick(d) ELSE zoomFocus
    /\ UNCHANGED <<pc, packRoot, zoomFrame>>

NextZoom ==
    \/ setFocusEffect
    \/ resize
    \/ handleBackgroundClick
    \/ \E d \in ZoomBubbles : bubbleClick(d)

SpecZoom == InitZoom /\ [][NextZoom]_vars

----------------------------------------------------------------------------
(* Specification of useDataset: fetches that overlap when the url changes   *)

Hook == "useDataset"

Urls == {"u1", "u2"}

\* runs of the effect in one life of the component
MaxFetches == 3

\* one run of the effect: the url it fetches, its `canceled` variable, and
\* how far its promise chain has come: "sent", "body" (the response was ok
\* and r.json() is pending) or "settled"
Fetch(u) == [url |-> u, canceled |-> FALSE, stage |-> "sent"]

\* the first render: useState(null) twice, the effect still to run
InitFetch ==
    /\ items = <<>>
    /\ tree = NoTree
    /\ pc = "rendered"
    /\ comp = Hook
    /\ focusName = "root"
    /\ isOverlayOpen = FALSE
    /\ overlayFocusName = Absent
    /\ overlayNode = NoFocus
    /\ overlaySide = DefaultSide
    /\ overlayLayout = NoLayout
    /\ NoZoom
    /\ url \in Urls
    /\ fetches = <<>>
    /\ data = Absent
    /\ err = Absent

\* what useDataset never touches
fetchFrame ==
    <<zoomVars, items, tree, overlayNode, overlaySide, overlayLayout,
      comp, focusName, isOverlayOpen, overlayFocusName>>

\* return () => { canceled = true; } of the run of the effect before, the
\* last one started
Cleanup(fs) ==
    [i \in 1..Len(fs) |->
        IF i = Len(fs) THEN [fs[i] EXCEPT !.canceled = TRUE] ELSE fs[i]]

\* the effect runs after a render with a new url: the cleanup of the run
\* before, then let canceled = false; fetch(url)...
runEffect ==
    /\ pc = "rendered"
    /\ comp = Hook
    /\ fetches' = Append(Cleanup(fetches), Fetch(url))
    /\ pc' = "mounted"
    /\ UNCHANGED <<url, data, err, fetchFrame>>

\* the component is rendered with another datasetUrl
setUrl(u) ==
    /\ pc = "mounted"
    /\ comp = Hook
    /\ u # url
    /\ Len(fetches) < MaxFetches
    /\ url' = u
    /\ pc' = "rendered"
    /\ UNCHANGED <<fetches, data, err, fetchFrame>>

\* the component is unmounted: the cleanup of the last run
unmount ==
    /\ pc \in {"mounted", "rendered"}
    /\ comp = Hook
    /\ fetches' = Cleanup(fetches)
    /\ pc' = "unmounted"
    /\ UNCHANGED <<url, data, err, fetchFrame>>

\* .catch((e) => !canceled && setErr(String(e))) of run i
catch(i) ==
    /\ fetches' = [fetches EXCEPT ![i].stage = "settled"]
    /\ err' = IF ~fetches[i].canceled THEN <<i>> ELSE err
    /\ UNCHANGED data

\* the response of run i arrives: `if (!r.ok) throw ...; return r.json()`,
\* or fetch rejects
respond(i, ok) ==
    /\ comp = Hook
    /\ fetches[i].stage = "sent"
    /\ IF ok
       THEN /\ fetches' = [fetches EXCEPT ![i].stage = "body"]
            /\ UNCHANGED <<data, err>>
       ELSE catch(i)
    /\ UNCHANGED <<pc, url, fetchFrame>>

\* a handler that stores the dataset without looking at `canceled`
receiveJson_NoCancelTest(i, ok) ==
    /\ comp = Hook
    /\ fetches[i].stage = "body"
    /\ IF ok
       THEN /\ fetches' = [fetches EXCEPT ![i].stage = "settled"]
            /\ data' = <<i>>
            /\ UNCHANGED err
       ELSE catch(i)
    /\ UNCHANGED <<pc, url, fetchFrame>>

\* r.json() of run i settles: .then((json) => !canceled && setData(json)),
\* or the body does not parse
receiveJson(i, ok) ==
    /\ comp = Hook
    /\ fetches[i].stage = "body"
    /\ IF ok
       THEN /\ fetches' = [fetches EXCEPT ![i].stage = "settled"]
            /\ data' = IF ~fetches[i].canceled THEN <<i>> ELSE data
            /\ UNCHANGED err
       ELSE catch(i)
    /\ UNCHANGED <<pc, url, fetchFrame>>

NextFetch ==
    \/ runEffect
    \/ \E u \in Urls : setUrl(u)
    \/ unmount
    \/ \E i \in 1..Len(fetches) : \E ok \in BOOLEAN : respond(i, ok)
    \/ \E i \in 1..Len(fetches) : \E ok \in BOOLEAN : receiveJson(i, ok)

SpecFetch == InitFetch /\ [][NextFetch]_vars

----------------------------------------------------------------------------
(* Claims about nestFlatToTree *)

\* C1 (as claimed): for every input with levels in 1..6, unique names and
\* parents absent or naming another record, the tree holds exactly one node
\* per record, each reachable from the synthetic root.
C1_ParentsNameOthers(its) ==
    \A k \in 1..Len(its) :
        \/ its[k].parent = Absent
        \/ \E j \in 1..Len(its) : j # k /\ its[j].name = its[k].parent[1]

C1_AllRecordsReachable ==
    (pc # "input" /\ LevelsValid(items) /\ NamesUnique(items)
        /\ C1_ParentsNameOthers(items))
    => /\ pc = "built"
       /\ Cardinality(Reach(tree)) = Len(items)
       /\ {tree.val[i] : i \in Reach(tree)} = SeqToSet(items)

\* C2: a level outside 1..6 at any position makes nestFlatToTree throw and
\* return nothing; levels all inside 1..6 never throw.
C2_ThrowsIffLevelOutOfRange ==
    pc # "input" =>
        /\ (pc = "thrown") <=> (\E i \in 1..Len(items) : items[i].level \notin 1..6)
        /\ pc = "thrown" =>
              (tree.keys = <<>> /\ tree.roots = <<>> /\ tree.kids = <<>>)
        /\ pc = "built" => tree.status = "built"

C2_Witness ==
    /\ pc = "thrown"
    /\ Len(items) = 3
    /\ items[1].level \in 1..6 /\ items[2].level \in 1..6
    /\ items[3].level = 0

\* C3 (as claimed): a record of level > 1 whose parent names no other record
\* (or is absent) ends as a direct child of the synthetic root, without error.
C3_OrphanUnderRoot ==
    (pc # "input" /\ LevelsValid(items)) =>
        /\ pc = "built"
        /\ \A k \in 1..Len(items) :
              (/\ IsLast(items, k)
               /\ items[k].level > 1
               /\ \/ items[k].parent = Absent
                  \/ \A j \in 1..Len(items) :
                        j # k => items[j].name # items[k].parent[1])
              => Holders(tree, NodeOf(tree, items[k].name)) = {0}

\* C4 (as claimed): a record of level > 1 whose parent names an existing
\* record is in the children list of that record's node and in no other list.
C4_ChildUnderNamedParent ==
    pc = "built" =>
        \A k \in 1..Len(items) :
            (/\ IsLast(items, k)
             /\ items[k].level > 1
             /\ items[k].parent # Absent
             /\ \E j \in 1..Len(items) : items[j].name = items[k].parent[1])
            => Holders(tree, NodeOf(tree, items[k].name))
                 = {NodeOf(tree, items[k].parent[1])}

\* C5: with unique names, every node has the same parent whatever the order
\* of the records in the input.
C5_ParentOrderIndependent ==
    (pc = "built" /\ NamesUnique(items)) =>
        \A f \in Orderings(Len(items)) :
            LET other == nestFlatToTree([i \in 1..Len(items) |-> items[f[i]]])
            IN  /\ other.status = "built"
                /\ \A n \in SeqToSet(tree.keys) :
                      ParentNames(other, n) = ParentNames(tree, n)

\* a child listed before its parent hangs under that parent
C5_Witness ==
    /\ pc = "built"
    /\ NamesUnique(items)
    /\ \E i, j \in Idx(tree) : i < j /\ i \in SeqToSet(tree.kids[j])

\* the children lists of a built tree: root's and every node's
ChildLists(t) == {t.roots} \cup {t.kids[j] : j \in Idx(t)}

\* C6 (as claimed): children appear in every children list in the order of
\* the records they were built from.
C6_ChildrenInRecordOrder ==
    pc = "built" =>
        \A l \in ChildLists(tree) : \A x, y \in 1..Len(l) :
            x < y => tree.val[l[x]].value < tree.val[l[y]].value

\* C6 (amended): children appear in every children list in the order in
\* which their names first appear in the input; nothing is sorted.
C6_ChildrenInFirstOccurrenceOrder ==
    pc = "built" =>
        \A l \in ChildLists(tree) : \A x, y \in 1..Len(l) :
            x < y => FirstPos(items, tree.keys[l[x]]) < FirstPos(items, tree.keys[l[y]])

\* two children in one list, the first built from a record that comes after
\* the record of the second
C6_Witness ==
    /\ pc = "built"
    /\ \E l \in ChildLists(tree) : \E x, y \in 1..Len(l) :
          x < y /\ tree.val[l[x]].value > tree.val[l[y]].value

\* C7 (as claimed): a name shared by several records has exactly one node in
\* the built tree, carrying the fields of the last of these records.
C7_LastWriteWins ==
    pc = "built" =>
        \A k \in 1..Len(items) :
            (IsLast(items, k) /\ ~NamesUnique(items)
                /\ \E j \in 1..Len(items) : j # k /\ items[j].name = items[k].name)
            => /\ Cardinality({i \in Reach(tree) : tree.keys[i] = items[k].name}) = 1
               /\ \A i \in Reach(tree) :
                     tree.keys[i] = items[k].name => tree.val[i] = items[k]

----------------------------------------------------------------------------
(* Claims about computeBubblePackingLayout *)

\* half a pixel: what the rounding of angles, sines and square roots can
\* move a distance by
Tol == Unit \div 2

BubblesAt(d) == {i \in 1..Len(overlayLayout.nodes) : overlayLayout.nodes[i].depth = d}

CountGrandchildren(node) ==
    LET c[i \in 0..Len(node.children)] ==
            IF i = 0 THEN 0 ELSE c[i - 1] + Len(node.children[i].children)
    IN  c[Len(node.children)]

\* C8: the layout holds one bubble of depth 0, one of depth 1 per child and
\* one of depth 2 per grandchild, and nothing else.
C8_BubbleCount ==
    pc = "packed" =>
        /\ Len(overlayLayout.nodes) =
              1 + Len(overlayNode.children) + CountGrandchildren(overlayNode)
        /\ Cardinality(BubblesAt(0)) = 1
        /\ Cardinality(BubblesAt(1)) = Len(overlayNode.children)
        /\ \A i \in 1..Len(overlayNode.children) :
              Cardinality({k \in BubblesAt(2) :
                    overlayLayout.nodes[k].parentId = <<overlayNode.children[i].name>>})
                  = Len(overlayNode.children[i].children)
        /\ BubblesAt(0) \cup BubblesAt(1) \cup BubblesAt(2) = 1..Len(overlayLayout.nodes)

\* a child without grandchildren before a child with some
C8_Witness ==
    /\ pc = "packed"
    /\ Len(overlayNode.children) >= 2
    /\ Len(overlayNode.children[1].children) = 0
    /\ Len(overlayNode.children[2].children) > 0
    /\ Len(overlayLayout.nodes) > 3

\* C9 (as claimed): the centres of two child bubbles are never closer than
\* the sum of their radii.
C9_ChildrenDoNotOverlap ==
    pc = "packed" =>
        \A i, j \in BubblesAt(1) :
            i # j =>
                LET a == overlayLayout.nodes[i]
                    b == overlayLayout.nodes[j]
                IN  Hypot(a.x - b.x, a.y - b.y) + Tol >= a.r + b.r

\* C10: every child bubble sits on the ring, whose radius is at least the
\* focus radius plus the child's radius plus the margin of 28, so no child
\* bubble overlaps the focus bubble.
C10_ChildrenClearFocus ==
    pc = "packed" =>
        \A i \in BubblesAt(1) :
            LET b == overlayLayout.nodes[i]
                f == overlayLayout.nodes[1]
                R == ringR(childInfo(overlayNode, overlaySide), overlaySide)
                d == Hypot(b.x - f.x, b.y - f.y)
            IN  /\ f.depth = 0
                /\ R >= f.r + b.r + 28 * Unit
                /\ Abs(d - R) <= Tol
                /\ d + Tol >= f.r + b.r + 28 * Unit

\* children of different sizes around the focus
C10_Witness ==
    /\ pc = "packed"
    /\ overlaySide > 0
    /\ \E i, j \in BubblesAt(1) : overlayLayout.nodes[i].r < overlayLayout.nodes[j].r

----------------------------------------------------------------------------
(* Claims about the ring of grandchildren *)

\* the children as placed for the focus node and side of the state
Placed == placedChildren(overlayNode, overlaySide)

\* the children that have grandchildren to place
Parenting ==
    LET placed == Placed
    IN  {i \in 1..Len(placed) : Len(placed[i].gcNodes) > 0}

\* cos(75 degrees) in 1/10000
Cos75 == Cos((75 * Pi) \div 180)

\* the bubble of depth 1 that owns the depth-2 bubble b
OwnerOf(b) ==
    overlayLayout.nodes[CHOOSE i \in BubblesAt(1) :
                            <<overlayLayout.nodes[i].id>> = b.parentId]

\* the length of the projection of the vector (dx, dy) on the direction of
\* (ux, uy), a vector of length len > 0; products are taken of tenths
Projection(dx, dy, ux, uy, len) ==
    (((dx \div 10) * (ux \div 10) + (dy \div 10) * (uy \div 10)) * 10)
        \div (len \div 10)

\* C11: seen from its child's centre, every grandchild lies within 75
\* degrees of the direction from the focus centre through the child; the
\* angles of one child's grandchildren are symmetric about that direction
\* and span less than the arc of 150 degrees.
C11_OutwardArc ==
    pc = "packed" =>
        /\ \A k \in BubblesAt(2) :
              LET b == overlayLayout.nodes[k]
                  c == OwnerOf(b)
                  f == overlayLayout.nodes[1]
              IN  Projection(b.x - c.x, b.y - c.y, c.x - f.x, c.y - f.y,
                             Hypot(c.x - f.x, c.y - f.y)) + Tol
                    >= (Cos75 * Hypot(b.x - c.x, b.y - c.y)) \div Scale
        /\ LET placed == Placed
           IN  \A i \in Parenting :
              LET ch    == placed[i]
                  N     == Len(ch.gcNodes)
                  step  == stepTheta(overlaySide, GrandRing(placed, overlaySide, ch))
                  start == thetaStart(ch, step)
              IN  /\ (N - 1) * step < arcSpan
                  /\ \A j \in 1..N :
                        /\ 2 * Abs(start + (j - 1) * step - ch.angle) <= arcSpan
                        /\ Abs((start + (j - 1) * step - ch.angle)
                               + (start + (N - j) * step - ch.angle)) <= 1

\* a child with a sibling and a full ring of grandchildren
C11_Witness ==
    /\ pc = "packed"
    /\ Len(Placed) >= 2
    /\ \E i \in Parenting : Len(Placed[i].gcNodes) >= 3
    /\ Cardinality(BubblesAt(2)) >= 3

\* the previous and the next child on the ring, as neighborRingCap takes them
PrevOf(i) == Placed[((i - 2 + Len(Placed)) % Len(Placed)) + 1]
NextOf(i) == Placed[(i % Len(Placed)) + 1]

\* distance between the centres of ch and nb - neighbour radius - grandchild
\* radius - safety margin
CapBy(ch, nb, rG) == Hypot(ch.x - nb.x, ch.y - nb.y) - nb.r - rG - Px(safety)

\* C12 (as claimed): for a child with a sibling, the ring radius used for its
\* grandchildren does not exceed the smaller of the bounds set by the previous
\* and the next child.
C12_RingWithinNeighbourCap ==
    pc = "packed" =>
        \A i \in Parenting :
            Len(Placed) >= 2 =>
                LET g == GrandRing(Placed, overlaySide, Placed[i])
                IN  g.ringG <= Min2(CapBy(Placed[i], PrevOf(i), g.rG),
                                    CapBy(Placed[i], NextOf(i), g.rG)) + Tol

\* C13 (as claimed): whenever the ring radius a child's grandchildren need
\* at the initial grandchild radius exceeds the bound set by the neighbours,
\* the grandchild radius is reduced and the ring radius is the one needed at
\* the reduced radius.
C13_ShrinkWhenCapExceeded ==
    pc = "packed" =>
        \A i \in Parenting :
            LET ch == Placed[i]
                r0 == minGrandR(overlaySide)
                g  == GrandRing(Placed, overlaySide, ch)
            IN  (/\ Len(Placed) >= 2
                 /\ ringGminOf(Len(ch.gcNodes), overlaySide, ch, r0)
                        > neighborRingCap(Placed, ch, r0).v)
                =>  /\ g.rG < r0
                    /\ g.ringG = ringGminOf(Len(ch.gcNodes), overlaySide, ch, g.rG)
                    /\ \A k \in BubblesAt(2) :
                          overlayLayout.nodes[k].parentId = <<ch.id>>
                              => overlayLayout.nodes[k].r = g.rG

\* C14: the radius of every grandchild bubble lies between 65% of the
\* initial grandchild radius clamp(0.042 * side, 13, 32) and that radius:
\* the reduction is applied at most once, by a ratio of at least 0.65.  The
\* lower bound allows for the rounding of the product to 1/100 pixel.
C14_ShrinkBounded ==
    pc = "packed" =>
        /\ \A k \in BubblesAt(2) :
              /\ overlayLayout.nodes[k].r <= minGrandR(overlaySide)
              /\ 100 * (overlayLayout.nodes[k].r + 1) > 65 * minGrandR(overlaySide)
        /\ LET placed == Placed
           IN  \A i \in Parenting :
              LET g == GrandRing(placed, overlaySide, placed[i])
              IN  /\ g.shrunk => g.rG < minGrandR(overlaySide)
                  /\ ~g.shrunk => g.rG = minGrandR(overlaySide)

\* grandchildren reduced all the way to 65% of the initial radius
C14_Witness ==
    /\ pc = "packed"
    /\ Len(Placed) >= 2
    /\ \E k \in BubblesAt(2) :
          /\ overlayLayout.nodes[k].r < minGrandR(overlaySide)
          /\ 100 * overlayLayout.nodes[k].r <= 65 * minGrandR(overlaySide)

\* C15: the layout is computed for every side and focus, and every divisor
\* in it is strictly positive: the radius and circumference of the ring of
\* children, and for each child with grandchildren the ring radius they need
\* (before and after the reduction) and the ring radius finally used.
C15_DivisorsPositive ==
    pc = "packed" =>
        /\ Len(overlayLayout.nodes) >= 1
        /\ ringR(childInfo(overlayNode, overlaySide), overlaySide) > 0
        /\ ringCirc(ringR(childInfo(overlayNode, overlaySide), overlaySide)) > 0
        /\ LET placed == Placed
           IN  \A i \in Parenting :
              LET ch == placed[i]
                  g  == GrandRing(placed, overlaySide, ch)
              IN  /\ ringGminOf(Len(ch.gcNodes), overlaySide, ch,
                                minGrandR(overlaySide)) > 0
                  /\ g.ringGmin > 0
                  /\ g.ringG > 0

\* the two degenerate inputs: no canvas and children to place, and a focus
\* without children
C15_Witness ==
    /\ pc = "packed"
    /\ \/ overlaySide = 0 /\ Parenting # {}
       \/ Len(overlayNode.children) = 0 /\ Len(overlayLayout.nodes) = 1

\* C16 (as claimed): every bubble of the layout has a strictly positive
\* radius.
C16_RadiiPositive ==
    pc = "packed" =>
        \A k \in 1..Len(overlayLayout.nodes) : overlayLayout.nodes[k].r > 0

----------------------------------------------------------------------------
(* Claims about the components *)

\* C17 (as claimed): no two bubbles of the layout shown in the overlay have
\* the same id.
C17_IdsUnique ==
    \A i, j \in 1..Len(overlayLayout.nodes) :
        overlayLayout.nodes[i].id = overlayLayout.nodes[j].id => i = j

\* what C18 asks of a click on the bubble of node d: the overlay focus
\* changes only to d and only if d has children, and nothing of the overlay
\* changes if d has none
ClickRespectsChildren(d) ==
    /\ overlayFocusName' # overlayFocusName =>
          HasChildren(tree, d) /\ overlayFocusName' = <<NameOf(tree, d)>>
    /\ ~HasChildren(tree, d) =>
          UNCHANGED <<overlayFocusName, isOverlayOpen>>

\* C18 (as claimed): in the two components with isOverlayOpen, a click on a
\* bubble of the main view or of the overlay moves the overlay focus to the
\* bubble's node only if that node has a child, and a click on a node
\* without children changes neither overlayFocusName nor isOverlayOpen.
C18_ClickNeedsChildren ==
    [][/\ \A k \in 1..Len(MainBubbles) :
              handleBubbleClick(MainBubbles[k])
                  => ClickRespectsChildren(MainBubbles[k])
       /\ \A k \in 1..Len(overlayLayout.nodes) :
              overlayDrillDown(overlayLayout.nodes[k])
                  => ClickRespectsChildren(
                        LayoutData(tree, overlayNodeOf(tree, overlayFocusName))[k])
       /\ \A d \in OverlayBubbles(tree, overlayNodeOf(tree, overlayFocusName)) :
              overlayDrillDownPacked(d) => ClickRespectsChildren(d[1])]_vars

\* C19 (as claimed): in the component with (focusName, overlayName), a click
\* that makes a bubble's node the focus makes a direct child of the previous
\* focus the focus, and only if that node has a child of its own.
C19_DrillDownOneLevel ==
    [][\A k \in 1..Len(KidsOf(tree, overlayNodeOf(tree, overlayFocusName))) :
          LET d == KidsOf(tree, overlayNodeOf(tree, overlayFocusName))[k]
          IN  drillIntoOverlay(d) =>
                /\ \E j \in 1..Len(MainBubbles) : MainBubbles[j] = d
                /\ HasChildren(tree, d)]_vars

\* the name of the node that holds the focus node: "root" when the focus is
\* the synthetic root or one of its children
ParentOfFocus ==
    IF focusNode(tree, focusName) = Root THEN "root"
    ELSE NameOf(tree, HolderOf(tree, focusNode(tree, focusName)))

\* C20: drillUp sets focusName to the name of the parent of the focus node,
\* to "root" when the focus is a top-level node or root itself, and in the
\* component with (focusName, overlayName) it leaves no overlay; the new
\* focusName is the name of a node of the tree.
C20_DrillUpToParent ==
    [][drillUp =>
          /\ focusName' = ParentOfFocus
          /\ findNodeByName(tree, Root, focusName') # Null
          /\ comp = TwoState => overlayFocusName' = Absent /\ ~OverlayShown']_vars

\* the focus is on a top-level node with children: it got there by a
\* drill-up from below, since a drill-down goes past the top level
C20_Witness ==
    /\ comp = TwoState
    /\ focusName # "root"
    /\ focusNode(tree, focusName) # Root
    /\ HolderOf(tree, focusNode(tree, focusName)) = Root
    /\ breadcrumb(tree, focusName) = <<focusName>>
    /\ HasChildren(tree, focusNode(tree, focusName))

----------------------------------------------------------------------------
(* Claims about the focus and the overlay *)

\* the root view: the main focus is root and no overlay is in the document
RootView == focusName = "root" /\ ~OverlayShown

\* how far a state is from the root view: two for every name on the
\* breadcrumb, one for an overlay
Distance ==
    2 * Len(breadcrumb(tree, focusName)) + (IF OverlayShown THEN 1 ELSE 0)

\* the controls that lead back are in the document: Close and the backdrop
\* with the overlay, the header drill-up with a breadcrumb that is not empty
CanStepBack ==
    \/ OverlayShown
    \/ comp \in {New, TwoState} /\ breadcrumb(tree, focusName) # <<>>

\* a step by one of those controls
StepBack ==
    \/ closeOverlay
    \/ closeOverlayTwoState
    \/ breadcrumb(tree, focusName) # <<>> /\ drillUp

\* a bubble of the main view with children: a click on it drills down
BranchBubbles ==
    {k \in 1..Len(MainBubbles) : HasChildren(tree, MainBubbles[k])}

\* C21: no state is terminal.  Every state other than the root view shows a
\* control that leads back, every step by such a control brings the state
\* closer to the root view, so finitely many of them reach it; and in the
\* root view some bubble has children whenever some node of the tree has,
\* and a click on such a bubble brings up an overlay.
C21_RootViewReachable ==
    /\ [](/\ RootView <=> Distance = 0
          /\ ~RootView => CanStepBack
          /\ RootView /\ (\E i \in Reach(tree) : HasChildren(tree, i))
                => BranchBubbles # {})
    /\ [][StepBack => Distance' < Distance]_vars
    /\ [][RootView =>
             \A k \in BranchBubbles :
                 \/ handleBubbleClick(MainBubbles[k])
                 \/ handleBubbleClickTwoState(MainBubbles[k])
                 => OverlayShown']_vars

\* two levels below the root view, with only the header button to go back
C21_Witness ==
    /\ comp = TwoState
    /\ Len(breadcrumb(tree, focusName)) = 2
    /\ ~OverlayShown

\* C22: the tree built by nestFlatToTree is the same after every click,
\* drill-down, drill-up, close and layout computation: no name, level,
\* parent, value or children list of a node changes, and neither do the
\* records the tree was built from.
C22_TreeNeverMutated ==
    [][tree' = tree /\ items' = items]_vars

\* overlayPack has been made for a node with grandchildren: the clone has
\* objects at depths 0, 1 and 2, and assignDepthValues has written on each
C22_Witness ==
    /\ comp = Packed
    /\ OverlayShown
    /\ \E k \in 1..Len(KidsOf(tree, overlayNodeOf(tree, overlayFocusName))) :
          HasChildren(tree, KidsOf(tree, overlayNodeOf(tree, overlayFocusName))[k])
    /\ Len(cloneDepthLimited(tree, overlayNodeOf(tree, overlayFocusName), 2)
              .children) > 0

----------------------------------------------------------------------------
(* Claims about CircularPacking *)

\* what the clicks do to the zoom focus: a click on the focused branch
\* bubble moves it to that bubble's parent, a click on another branch bubble
\* to that bubble, a click on the background to the layout root, a click on
\* a leaf bubble nowhere
ZoomClicks ==
    /\ \A d \in ZoomBubbles :
          bubbleClick(d) =>
              zoomFocus' = IF ~HasChildren(tree, d) THEN zoomFocus
                           ELSE IF zoomFocus[2] = d
                                THEN <<packRoot, HolderOf(tree, d)>>
                                ELSE <<packRoot, d>>
    /\ handleBackgroundClick => zoomFocus' = <<packRoot, Root>>

\* the focus is the root of a layout or one of its nodes with a child
FocusRootOrBranch ==
    /\ zoomFocus # Absent
    /\ zoomFocus[2] = Root \/ HasChildren(tree, zoomFocus[2])

\* C23 (as claimed): the clicks act as described, and the focus is always
\* the layout root or a node with at least one child.
C23_FocusAlwaysRootOrBranch ==
    [][ZoomClicks]_vars /\ []FocusRootOrBranch

\* C23 (amended): the clicks act as described; once the effect that follows
\* a new layout has run, the focus is the root of that layout or one of its
\* nodes with at least one child; before it has run the focus is null (first
\* render) or a node of the layout before.
C23_FocusRootOrBranchOnceSet ==
    /\ [][ZoomClicks]_vars
    /\ [](IF pc = "mounted"
          THEN FocusRootOrBranch /\ zoomFocus[1] = packRoot
          ELSE zoomFocus = Absent \/ zoomFocus[1] = packRoot - 1)

\* the focus is on a branch bubble below the top level
C23_Witness ==
    /\ comp = Zoom
    /\ pc = "mounted"
    /\ zoomFocus[2] # Root
    /\ HolderOf(tree, zoomFocus[2]) # Root
    /\ HasChildren(tree, zoomFocus[2])

\* C24: in the two components with isOverlayOpen the main focusName is
\* "root" in every reachable state, so the main view shows the children of
\* the synthetic root and the breadcrumb is empty; no handler changes it,
\* the header drill-up included.
C24_MainFocusStaysRoot ==
    /\ [](comp \in {New, Packed} =>
              /\ focusName = "root"
              /\ focusNode(tree, focusName) = Root
              /\ MainBubbles = tree.roots
              /\ breadcrumb(tree, focusName) = <<>>)
    /\ [][(comp \in {New, Packed}) => focusName' = focusName]_vars

\* the overlay has been opened and drilled into, below the top level
C24_Witness ==
    /\ comp \in {New, Packed}
    /\ focusName = "root"
    /\ OverlayShown
    /\ overlayNodeOf(tree, overlayFocusName) # Root
    /\ HolderOf(tree, overlayNodeOf(tree, overlayFocusName)) # Root

\* C25: in the two components with isOverlayOpen, an open overlay has a
\* non-null overlayFocusName that names a node of the tree, the root or a
\* node with at least one child; overlayFocusName never goes back to null
\* once set, and Close leaves it as it is.
C25_OpenOverlayHasFocus ==
    /\ [](comp \in {New, Packed} /\ isOverlayOpen =>
              /\ overlayFocusName # Absent
              /\ overlayNodeOf(tree, overlayFocusName) # Null
              /\ \/ overlayNodeOf(tree, overlayFocusName) = Root
                 \/ HasChildren(tree, overlayNodeOf(tree, overlayFocusName)))
    /\ [][(comp \in {New, Packed}) /\ overlayFocusName # Absent
             => overlayFocusName' # Absent]_vars
    /\ [][closeOverlay => overlayFocusName' = overlayFocusName]_vars

\* the overlay has been closed on a node below the root: its name stays
C25_Witness ==
    /\ comp \in {New, Packed}
    /\ ~isOverlayOpen
    /\ overlayFocusName # Absent
    /\ overlayNodeOf(tree, overlayFocusName) # Root

\* C26 (as claimed): every overlayDrillUp with the overlay on a node other
\* than the synthetic root moves the overlay to the node that holds it and
\* leaves the overlay open, and with the overlay on the synthetic root it
\* closes the overlay: d presses from depth d reach the root, one more
\* closes, and the overlay focus always names a node of the tree.
C26_DrillUpOneLevel ==
    [][overlayDrillUp =>
          IF overlayNodeOf(tree, overlayFocusName) = Root
          THEN ~isOverlayOpen' /\ overlayFocusName' = overlayFocusName
          ELSE /\ isOverlayOpen'
               /\ overlayNodeOf(tree, overlayFocusName')
                     = HolderOf(tree, overlayNodeOf(tree, overlayFocusName))]_vars

\* C27 (as claimed): in BubbleHierarchy of CircularPackingHierarchy.tsx an
\* overlay drill-down that changes the overlay focus comes from a bubble of
\* depth 1, never from a grandchild bubble, and moves the overlay to a
\* direct child of the node it was on; overlayDrillUp would then store the
\* overlay focus there was before.
C27_DrillDownOneLevelPacked ==
    [][\A d \in OverlayBubbles(tree, overlayNodeOf(tree, overlayFocusName)) :
          overlayDrillDownPacked(d) /\ overlayFocusName' # overlayFocusName
              => /\ d[2] = 1
                 /\ overlayNodeOf(tree, overlayFocusName') = d[1]
                 /\ HolderOf(tree, d[1]) = overlayNodeOf(tree, overlayFocusName)
                 /\ findParentName(tree, overlayFocusName'[1])
                       = overlayFocusName]_vars

\* C28: in the component with (focusName, overlayName), a non-null
\* overlayName is the name of a direct child of the focus node that has at
\* least one child; drillIntoOverlay and drillUp, the handlers that set
\* focusName, leave overlayName null.
C28_OverlayNamesChildOfFocus ==
    /\ [](comp = TwoState /\ overlayFocusName # Absent =>
              \E k \in 1..Len(MainBubbles) :
                  /\ NameOf(tree, MainBubbles[k]) = overlayFocusName[1]
                  /\ HasChildren(tree, MainBubbles[k]))
    /\ [][(comp = TwoState) /\ focusName' # focusName
             => overlayFocusName' = Absent]_vars
    /\ [][(comp = TwoState) /\ drillUp => overlayFocusName' = Absent]_vars

\* an overlay over a focus below the root
C28_Witness ==
    /\ comp = TwoState
    /\ focusNode(tree, focusName) # Root
    /\ overlayFocusName # Absent
    /\ OverlayShown

----------------------------------------------------------------------------
(* Claims about useDataset *)

\* run i of the effect settles in this step
Settles(i) ==
    fetches[i].stage # "settled" /\ fetches'[i].stage = "settled"

====
